---------------------------- MODULE Spec2Model ----------------------------
(***************************************************************************)
(* Model of the fixed length FIFO ring buffer of package ringbuffer        *)
(* (ringbuffer.go): the generic functions Cap, Len, Push and Pop over a    *)
(* caller-owned slice and two integer cursors, and the RingBuffer[T]       *)
(* container that owns a slice of capacity+1 elements and two int cursors. *)
(*                                                                         *)
(* A Go slice is a sequence; the Go index i is the sequence index i + 1.   *)
(* The element type T is int, whose zero value is 0.                       *)
(***************************************************************************)
EXTENDS Integers, Sequences, FiniteSets, TLC

(***************************************************************************)
(* Bounds of the model.                                                    *)
(***************************************************************************)
\* largest capacity handed to New
MaxCap == 3
\* New is also called with the capacities -MaxNegCap .. 0
MaxNegCap == 2
\* pushed values are drawn from 0 .. MaxVal
MaxVal == 2
\* number of Push and Pop calls on the container in one run
MaxCalls == 7
\* widest narrow cursor type of the low-level form, in bits
MaxBits == 3
\* number of Push and Pop calls in one run of the low-level form
MaxLowCalls == 11
\* number of Push and Pop calls before the fill-and-drain cycles start
MaxPre == 4
\* number of fill-and-drain cycles
MaxCycles == 3
\* number of calls each of the producer and the consumer thread makes
MaxSpscCalls == 4

\* zero value of the element type ("var def T")
Zero == 0
\* width of Go's int, the cursor type of the container
NativeBits == 64

Values == 0..MaxVal

(***************************************************************************)
(* Integer types (constraints.Integer) and Go's integer arithmetic.        *)
(***************************************************************************)
RECURSIVE Pow2(_)
Pow2(n) == IF n = 0 THEN 1 ELSE 2 * Pow2(n - 1)

\* the type int of the container's cursors
IntT == [signed |-> TRUE, bits |-> NativeBits]

MinOf(U) == IF U.signed THEN 0 - Pow2(U.bits - 1) ELSE 0
MaxOf(U) == IF U.signed THEN Pow2(U.bits - 1) - 1 ELSE Pow2(U.bits) - 1

\* The value of x in the type U: arithmetic in a fixed-width type wraps
\* modulo 2^bits, and so does the conversion U(x).  The model never comes
\* near the limits of the 64-bit int, so there x is kept as it is.
Conv(x, U) ==
    IF U.bits = NativeBits THEN x
    ELSE MinOf(U) + ((x - MinOf(U)) % Pow2(U.bits))

\* Go's a % b for b > 0: the remainder of the truncated division, which has
\* the sign of a.
GoRem(a, b) == IF a >= 0 THEN a % b ELSE 0 - ((0 - a) % b)

\* is i an index of the slice?  Indexing outside panics.
InRange(slice, i) == 0 <= i /\ i < Len(slice)

(***************************************************************************)
(* The generic functions.                                                  *)
(***************************************************************************)
\* Cap gone wrong: the reserved slot is counted as usable
Cap_NoReserve(slice) == Len(slice)

\* func Cap[T any](slice []T) int
Cap(slice) ==
    LET v == Len(slice) - 1
    IN  IF v < 0 THEN 0 ELSE v

\* Len gone wrong: write - read also when write is below read
Length_NoWrap(slice, rd, wr, U) == Conv(wr - rd, U)

\* Len gone wrong: the difference is taken first and corrected when negative,
\* which an unsigned cursor type never shows
Length_FixAfter(slice, rd, wr, U) ==
    LET d == Conv(wr - rd, U)
    IN  IF d < 0 THEN d + Len(slice) ELSE d

\* Len gone wrong: below the read cursor the write cursor is counted from
\* the capacity, not from the length of the store
Length_WrapByCap(slice, rd, wr, U) ==
    IF wr >= rd
    THEN Conv(wr - rd, U)
    ELSE Len(slice) - 1 - Conv(rd - wr, U)

\* func Len[T any, U constraints.Integer](slice []T, read, write U) int
Length(slice, rd, wr, U) ==
    IF wr >= rd
    THEN Conv(wr - rd, U)
    ELSE Len(slice) - Conv(rd - wr, U)

\* next gone wrong: the + 1 is missing
PushNext_NoIncrement(slice, wr, U) == GoRem(Conv(wr, U), Len(slice))

\* next gone wrong: taken modulo the capacity, not the length of the store
PushNext_ModCap(slice, wr, U) ==
    IF Len(slice) = 1 THEN 0 ELSE GoRem(Conv(wr + 1, U), Len(slice) - 1)

\* next := int(*write+1) % len(slice)
PushNext(slice, wr, U) == GoRem(Conv(wr + 1, U), Len(slice))

\* the full test gone wrong: it never finds the store full
PushFull_Never(next, rd) == FALSE

\* if next == int(read) { return false }
PushFull(next, rd) == next = rd

\* Push gone wrong: the value is stored at next, not at *write
Push_StoreAtNext(slice, rd, wr, v, U) ==
    IF Len(slice) = 0
    THEN [ok |-> FALSE, slice |-> slice, write |-> wr, panic |-> FALSE]
    ELSE LET next == GoRem(Conv(wr + 1, U), Len(slice))
         IN  IF next = rd
             THEN [ok |-> FALSE, slice |-> slice, write |-> wr, panic |-> FALSE]
             ELSE IF ~InRange(slice, next)
             THEN [ok |-> FALSE, slice |-> slice, write |-> wr, panic |-> TRUE]
             ELSE [ok |-> TRUE, slice |-> [slice EXCEPT ![next + 1] = v],
                   write |-> Conv(next, U), panic |-> FALSE]

\* Push gone wrong: without the test of len(slice) == 0, so that the
\* remainder by zero panics
Push_NoLenCheck(slice, rd, wr, v, U) ==
    IF Len(slice) = 0
    THEN [ok |-> FALSE, slice |-> slice, write |-> wr, panic |-> TRUE]
    ELSE LET next == GoRem(Conv(wr + 1, U), Len(slice))
         IN  IF next = rd
             THEN [ok |-> FALSE, slice |-> slice, write |-> wr, panic |-> FALSE]
             ELSE IF ~InRange(slice, wr)
             THEN [ok |-> FALSE, slice |-> slice, write |-> wr, panic |-> TRUE]
             ELSE [ok |-> TRUE, slice |-> [slice EXCEPT ![wr + 1] = v],
                   write |-> Conv(next, U), panic |-> FALSE]

\* Push gone wrong: the value is stored before the full test
Push_WriteOnFull(slice, rd, wr, v, U) ==
    IF Len(slice) = 0
    THEN [ok |-> FALSE, slice |-> slice, write |-> wr, panic |-> FALSE]
    ELSE LET next == GoRem(Conv(wr + 1, U), Len(slice))
         IN  IF ~InRange(slice, wr)
             THEN [ok |-> FALSE, slice |-> slice, write |-> wr, panic |-> TRUE]
             ELSE IF next = rd
             THEN [ok |-> FALSE, slice |-> [slice EXCEPT ![wr + 1] = v],
                   write |-> wr, panic |-> FALSE]
             ELSE [ok |-> TRUE, slice |-> [slice EXCEPT ![wr + 1] = v],
                   write |-> Conv(next, U), panic |-> FALSE]

\* func Push[T any, U constraints.Integer](slice []T, read U, write *U, v T) bool
\* The result holds the returned bool, the slice and *write after the call,
\* and whether the call panicked (index out of range at slice[*write]).
Push(slice, rd, wr, v, U) ==
    IF Len(slice) = 0
    THEN [ok |-> FALSE, slice |-> slice, write |-> wr, panic |-> FALSE]
    ELSE LET next == PushNext(slice, wr, U)
         IN  IF PushFull(next, rd)
             THEN [ok |-> FALSE, slice |-> slice, write |-> wr, panic |-> FALSE]
             ELSE IF ~InRange(slice, wr)
             THEN [ok |-> FALSE, slice |-> slice, write |-> wr, panic |-> TRUE]
             ELSE [ok |-> TRUE, slice |-> [slice EXCEPT ![wr + 1] = v],
                   write |-> Conv(next, U), panic |-> FALSE]

\* if *read == write { return def, false }
PopEmpty(rd, wr) == rd = wr

\* the read cursor's step gone wrong: the remainder is missing
PopNext_NoMod(slice, rd, U) == Conv(rd + 1, U)

\* *read = U(int(*read+1) % len(slice))
PopNext(slice, rd, U) == Conv(GoRem(Conv(rd + 1, U), Len(slice)), U)

\* Pop gone wrong: the vacated slot is set to the zero value
Pop_ClearSlot(slice, rd, wr, U) ==
    IF rd = wr
    THEN [val |-> Zero, ok |-> FALSE, slice |-> slice, read |-> rd, panic |-> FALSE]
    ELSE IF ~InRange(slice, rd)
    THEN [val |-> Zero, ok |-> FALSE, slice |-> slice, read |-> rd, panic |-> TRUE]
    ELSE [val |-> slice[rd + 1], ok |-> TRUE,
          slice |-> [slice EXCEPT ![rd + 1] = Zero],
          read |-> Conv(GoRem(Conv(rd + 1, U), Len(slice)), U), panic |-> FALSE]

\* func Pop[T any, U constraints.Integer](slice []T, read *U, write U) (T, bool)
\* The result holds the returned pair, the slice and *read after the call
\* (write is passed by value), and whether the call panicked (index out of
\* range at slice[*read]).
Pop(slice, rd, wr, U) ==
    IF PopEmpty(rd, wr)
    THEN [val |-> Zero, ok |-> FALSE, slice |-> slice, read |-> rd, panic |-> FALSE]
    ELSE IF ~InRange(slice, rd)
    THEN [val |-> Zero, ok |-> FALSE, slice |-> slice, read |-> rd, panic |-> TRUE]
    ELSE [val |-> slice[rd + 1], ok |-> TRUE, slice |-> slice,
          read |-> PopNext(slice, rd, U), panic |-> FALSE]

(***************************************************************************)
(* The container RingBuffer[T].                                            *)
(***************************************************************************)
\* the allocation gone wrong: no reserved slot
NewBuffer_NoExtra(c) == [i \in 1..c |-> Zero]

\* buffer = make([]T, capacity+1): capacity+1 zero values
NewBuffer(c) == [i \in 1..(c + 1) |-> Zero]

\* func New[T any](capacity int) RingBuffer[T]
New(c) ==
    [buffer |-> IF c >= 1 THEN NewBuffer(c) ELSE << >>,
     read   |-> 0,
     write  |-> 0]

\* var buf ringbuffer.RingBuffer[int]: the zero value of the struct, a nil
\* slice (of length 0) and two zero cursors
ZeroRingBuffer == [buffer |-> << >>, read |-> 0, write |-> 0]

(***************************************************************************)
(* State.                                                                  *)
(***************************************************************************)
VARIABLES
    buffer, read, write,    \* the fields of the container
    op, ok, val, panic,     \* the last call on the container and what it returned
    ctor, capacity,         \* how the container was made: "New" with capacity, or "zero"
    pushed, popped,         \* the values of the successful Pushes and Pops, in call order
    calls,                  \* number of Push and Pop calls made
    run, runEmpty,          \* results of the Pushes since the last Pop (or since
                            \* construction), and whether the container was empty then
    phase, cstep, cycles,   \* the fill-and-drain driver of TestRingBuffer
    U, slice, lread, lwrite,   \* low-level form: cursor type, store and the two cursors
    lop, lok, lval, lpanic, lres,  \* the last low-level call and what it returned
    pc, loc                 \* two threads calling the low-level form at once: the
                            \* place each is at in Push or Pop, and its locals

cont == <<buffer, read, write>>
res  == <<op, ok, val, panic>>
made == <<ctor, capacity>>
hist == <<pushed, popped, run, runEmpty>>
drv  == <<phase, cstep, cycles>>
low  == <<U, slice, lread, lwrite, lop, lok, lval, lpanic, lres>>
thr  == <<pc, loc>>
vars == <<cont, res, made, hist, calls, drv, low, thr>>

\* func (b RingBuffer[T]) Cap() int
RingBuffer_Cap == Cap(buffer)

\* func (b RingBuffer[T]) Len() int
RingBuffer_Len == Length(buffer, read, write, IntT)

\* func (b *RingBuffer[T]) Push(v T) bool
\* A panic ends the program: nothing is called after it.
RingBuffer_Push(v) ==
    LET r == Push(buffer, read, write, v, IntT)
    IN  /\ ~panic
        /\ buffer' = r.slice
        /\ write' = r.write
        /\ read' = read
        /\ op' = "push"
        /\ ok' = r.ok
        /\ val' = Zero
        /\ panic' = r.panic
        /\ pushed' = IF r.ok THEN Append(pushed, v) ELSE pushed
        /\ popped' = popped
        /\ run' = Append(run, r.ok)
        /\ runEmpty' = runEmpty
        /\ calls' = calls + 1
        /\ UNCHANGED made

\* func (b *RingBuffer[T]) Pop() (T, bool)
RingBuffer_Pop ==
    LET r == Pop(buffer, read, write, IntT)
    IN  /\ ~panic
        /\ read' = r.read
        /\ buffer' = r.slice
        /\ write' = write
        /\ op' = "pop"
        /\ ok' = r.ok
        /\ val' = r.val
        /\ panic' = r.panic
        /\ popped' = IF r.ok THEN Append(popped, r.val) ELSE popped
        /\ pushed' = pushed
        /\ run' = << >>
        /\ runEmpty' = (Length(r.slice, r.read, write, IntT) = 0)
        /\ calls' = calls + 1
        /\ UNCHANGED made

\* the container b right after b := ringbuffer.New[int](c), or after
\* "var b ringbuffer.RingBuffer[int]" when how = "zero"
InitContainer(how, c) ==
    LET b == IF how = "New" THEN New(c) ELSE ZeroRingBuffer
    IN  /\ buffer = b.buffer
        /\ read = b.read
        /\ write = b.write
        /\ ctor = how
        /\ capacity = c
        /\ op = "new" /\ ok = TRUE /\ val = Zero /\ panic = FALSE
        /\ pushed = << >> /\ popped = << >>
        /\ run = << >> /\ runEmpty = TRUE
        /\ calls = 0

DriverIdle == phase = "free" /\ cstep = 0 /\ cycles = 0

\* the two threads of the concurrent runs
Threads == {1, 2}

\* the locals of a thread not yet in any call: the arguments read and v, the
\* loaded cursors and next, the popped value, how many of the stores after
\* the test are done, the returned bool, and the number of calls begun
NoLocals ==
    [rd |-> 0, wr |-> 0, next |-> 0, v |-> Zero, val |-> Zero,
     k |-> 0, ret |-> "none", n |-> 0]

ThreadsIdle ==
    /\ pc = [t \in Threads |-> "idle"]
    /\ loc = [t \in Threads |-> NoLocals]

LowIdle ==
    /\ U = IntT /\ slice = << >> /\ lread = 0 /\ lwrite = 0
    /\ lop = "none" /\ lok = FALSE /\ lval = Zero /\ lpanic = FALSE /\ lres = 0

(***************************************************************************)
(* Spec: a container made by New(c), c in -MaxNegCap .. MaxCap, or left as *)
(* the zero value, and then any MaxCalls calls of Push and Pop.            *)
(***************************************************************************)
Init ==
    /\ \/ \E c \in (0 - MaxNegCap)..MaxCap : InitContainer("New", c)
       \/ InitContainer("zero", 0)
    /\ DriverIdle
    /\ ThreadsIdle
    /\ LowIdle

CallPush ==
    /\ calls < MaxCalls
    /\ \E v \in Values : RingBuffer_Push(v)
    /\ UNCHANGED <<drv, low, thr>>

CallPop ==
    /\ calls < MaxCalls
    /\ RingBuffer_Pop
    /\ UNCHANGED <<drv, low, thr>>

Next == CallPush \/ CallPop

Spec == Init /\ [][Next]_vars

(***************************************************************************)
(* Properties of the container under Spec.                                 *)
(***************************************************************************)
\* what up to n further Pops would return, in order, until one fails
RECURSIVE Drain(_, _, _, _)
Drain(sl, rd, wr, n) ==
    LET r == Pop(sl, rd, wr, IntT)
    IN  IF n = 0 \/ ~r.ok THEN << >>
        ELSE <<r.val>> \o Drain(sl, r.read, wr, n - 1)

\* the values still poppable from the container
Poppable == Drain(buffer, read, write, Len(buffer) + 1)

PushWouldFail == ~Push(buffer, read, write, Zero, IntT).ok
PopWouldFail == ~Pop(buffer, read, write, IntT).ok

\* C1: FIFO ordering.  For a container made by New(C), C >= 1, after any
\* sequence of Push and Pop calls, the values returned by the successful Pops
\* followed by the values still poppable are exactly the values of the
\* successful Pushes, in the same order: the popped values are a prefix of
\* the pushed ones and the poppable values are the remaining suffix.
FifoOrder ==
    (ctor = "New" /\ capacity >= 1) => pushed = popped \o Poppable

\* a state of C1: two values were popped, others are still in the buffer and
\* the write cursor has wrapped below the read cursor
FifoOrderWitness ==
    /\ ctor = "New" /\ capacity >= 2
    /\ Len(popped) >= 2
    /\ Len(pushed) >= Len(popped) + 2
    /\ write < read

\* C2: capacity ceiling.  On a container with Cap() = C >= 1 that was empty
\* (fresh, or drained at any cursor position), consecutive Push calls with
\* no Pop in between return true for the first C and false from the C+1st
\* on, and Len() after the C+1st equals Cap().
CapacityCeiling ==
    (runEmpty /\ RingBuffer_Cap >= 1) =>
        /\ \A i \in 1..Len(run) : run[i] = (i <= RingBuffer_Cap)
        /\ Len(run) >= RingBuffer_Cap + 1 => RingBuffer_Len = RingBuffer_Cap

\* a state of C2: the container was drained at a cursor position other than
\* 0 and C+1 Pushes followed
CapacityCeilingWitness ==
    /\ runEmpty /\ RingBuffer_Cap >= 2
    /\ Len(popped) >= 1
    /\ Len(run) = RingBuffer_Cap + 1
    /\ op = "push" /\ ~ok

\* C3: in every reachable state of a container of any capacity, Push returns
\* true iff Len() < Cap() held right before the call, and Pop returns
\* (value, true) iff Len() > 0 held right before the call; a failing Pop
\* returns the zero value.
SuccessIffLength ==
    [][ /\ op' = "push" => (ok' = (RingBuffer_Len < RingBuffer_Cap))
        /\ op' = "pop"  => /\ ok' = (RingBuffer_Len > 0)
                           /\ ~ok' => val' = Zero ]_vars

\* a state of C3: a Push has just failed on a full container whose write
\* cursor is below its read cursor
SuccessIffLengthWitness ==
    /\ op = "push" /\ ~ok
    /\ capacity >= 2
    /\ write < read
    /\ Len(popped) >= 1

\* C4: a container made by New(C) with C <= 0 and a zero-value RingBuffer
\* behave alike: after any sequence of Push and Pop calls, Cap() = 0,
\* Len() = 0, the last Push returned false, the last Pop returned
\* (zero value, false), nothing panicked and both cursors are 0.
ZeroCapacity ==
    (ctor = "zero" \/ capacity <= 0) =>
        /\ RingBuffer_Cap = 0
        /\ RingBuffer_Len = 0
        /\ read = 0 /\ write = 0
        /\ ~panic
        /\ op = "push" => ~ok
        /\ op = "pop" => (~ok /\ val = Zero)
        /\ pushed = << >> /\ popped = << >>

\* a state of C4: New was given a negative capacity, and Pop and then two
\* Pushes were called
ZeroCapacityWitness ==
    /\ ctor = "New" /\ capacity < 0
    /\ op = "push"
    /\ Len(run) = 2
    /\ calls >= 3

\* C5: for every C >= 1, New(C) gives a container with Cap() = C and
\* Len() = 0, and Cap() is still C after any sequence of Push and Pop calls.
ConstantCapacity ==
    (ctor = "New" /\ capacity >= 1) =>
        /\ RingBuffer_Cap = capacity
        /\ op = "new" => RingBuffer_Len = 0

\* a state of C5: a container of capacity 3 after MaxCalls calls, four of them
\* successful Pushes
ConstantCapacityWitness ==
    /\ ctor = "New" /\ capacity = 3
    /\ op = "pop" /\ ok
    /\ Len(pushed) >= 4
    /\ calls = MaxCalls

\* C6: in every reachable state of a container with a non-empty store,
\* Len() = (write - read) mod len(store) and 0 <= Len() <= Cap() =
\* len(store) - 1.
LengthInvariant ==
    Len(buffer) > 0 =>
        /\ RingBuffer_Len = (write - read) % Len(buffer)
        /\ 0 <= RingBuffer_Len
        /\ RingBuffer_Len <= RingBuffer_Cap
        /\ RingBuffer_Cap = Len(buffer) - 1

\* a state of C6: a full container whose write cursor is below its read cursor
LengthInvariantWitness ==
    /\ Len(buffer) >= 3
    /\ write < read
    /\ RingBuffer_Len = RingBuffer_Cap

\* C7: for a container of capacity >= 1 there is no reachable state in which
\* a Push would fail and a Pop would fail too, and whenever Len() = 0 a Pop
\* fails and a Push succeeds.
FullEmptyExclusion ==
    (ctor = "New" /\ capacity >= 1) =>
        /\ ~(PushWouldFail /\ PopWouldFail)
        /\ RingBuffer_Len = 0 => (PopWouldFail /\ ~PushWouldFail)

\* a state of C7: a container drained after its cursors went around the store
FullEmptyExclusionWitness ==
    /\ ctor = "New" /\ capacity >= 1
    /\ RingBuffer_Len = 0
    /\ read # 0
    /\ Len(popped) > capacity + 1

\* C11: frame of Push.  A Push that returns false changes neither cursor and
\* no slot; a Push that returns true writes its value into the slot the
\* write cursor pointed at before the call, sets write to (write + 1) mod
\* len(store) and leaves every other slot as it was; no Push changes the read
\* cursor.
PushFrame ==
    [][ op' = "push" =>
          /\ read' = read
          /\ ~ok' => (buffer' = buffer /\ write' = write /\ pushed' = pushed)
          /\ ok' => /\ InRange(buffer, write)
                    /\ Len(pushed') = Len(pushed) + 1
                    /\ buffer' = [buffer EXCEPT ![write + 1] = pushed'[Len(pushed')]]
                    /\ write' = (write + 1) % Len(buffer) ]_vars

\* a state of C11: a Push has just succeeded and taken the write cursor from
\* the last slot back to 0
PushFrameWitness ==
    /\ op = "push" /\ ok
    /\ capacity >= 2
    /\ write = 0
    /\ buffer[Len(buffer)] = pushed[Len(pushed)]

\* C12: frame of Pop.  A Pop returns false exactly when read = write and then
\* changes neither cursor and no slot; a Pop that returns true returns the
\* value of the slot the read cursor pointed at before the call, sets read to
\* (read + 1) mod len(store) and changes nothing else: the write cursor and
\* every slot, the vacated one too, keep their values.
PopFrame ==
    [][ op' = "pop" =>
          /\ write' = write
          /\ buffer' = buffer
          /\ ok' = (read # write)
          /\ ~ok' => read' = read
          /\ ok' => /\ InRange(buffer, read)
                    /\ val' = buffer[read + 1]
                    /\ read' = (read + 1) % Len(buffer) ]_vars

\* a state of C12: a Pop has just returned a non-zero value from the last
\* slot, which still holds it, and taken the read cursor back to 0
PopFrameWitness ==
    /\ op = "pop" /\ ok
    /\ capacity >= 2
    /\ read = 0
    /\ val # Zero
    /\ buffer[Len(buffer)] = val

\* C15: on a container a Push that returns true makes Len() one larger, a
\* Pop that returns true makes Len() one smaller, and a Push or Pop that
\* returns false leaves Len() as it was, also on the step on which a cursor
\* goes from len(store) - 1 to 0.
LengthSteps ==
    [][ /\ (op' = "push" /\ ok') => RingBuffer_Len' = RingBuffer_Len + 1
        /\ (op' = "pop" /\ ok') => RingBuffer_Len' = RingBuffer_Len - 1
        /\ (op' \in {"push", "pop"} /\ ~ok') => RingBuffer_Len' = RingBuffer_Len ]_vars

\* a state of C15: a successful Push has just taken the write cursor from
\* len(store) - 1 to 0, below the read cursor
LengthStepsWitness ==
    /\ op = "push" /\ ok
    /\ write = 0
    /\ read >= 2
    /\ RingBuffer_Len >= 2

(***************************************************************************)
(* SpecLow: the low-level form with a narrow cursor type, run call for     *)
(* call beside the container.  The caller owns a store of length L >= 2    *)
(* and two cursors of a type U of 1 .. MaxBits bits, signed or unsigned,   *)
(* in which all of 0 .. L-1 can be represented (ExamplePush: var buf       *)
(* [5]int; var read, write int8); the container is New(L-1).  Each step    *)
(* makes the same call on both.  The pushed value is the number of the     *)
(* call, so that all pushed values differ.                                 *)
(***************************************************************************)
CursorTypes == [signed : BOOLEAN, bits : 1..MaxBits]

InitLow ==
    /\ \E u \in CursorTypes : \E L \in 2..(MaxOf(u) + 1) :
          /\ U = u
          /\ slice = [i \in 1..L |-> Zero]
          /\ InitContainer("New", L - 1)
    /\ lread = 0 /\ lwrite = 0
    /\ lop = "none" /\ lok = TRUE /\ lval = Zero /\ lpanic = FALSE /\ lres = 0
    /\ DriverIdle
    /\ ThreadsIdle

\* ringbuffer.Push(buf[:], read, &write, v) beside b.Push(v)
LowPush ==
    /\ calls < MaxLowCalls
    /\ ~lpanic
    /\ \E v \in {calls + 1} :
          /\ RingBuffer_Push(v)
          /\ LET r == Push(slice, lread, lwrite, v, U)
             IN  /\ slice' = r.slice
                 /\ lwrite' = r.write
                 /\ lread' = lread
                 /\ lop' = "push"
                 /\ lok' = r.ok
                 /\ lval' = Zero
                 /\ lpanic' = r.panic
    /\ UNCHANGED <<U, lres, drv, thr>>

\* ringbuffer.Pop(buf[:], &read, write) beside b.Pop()
LowPop ==
    /\ calls < MaxLowCalls
    /\ ~lpanic
    /\ RingBuffer_Pop
    /\ LET r == Pop(slice, lread, lwrite, U)
       IN  /\ lread' = r.read
           /\ slice' = r.slice
           /\ lwrite' = lwrite
           /\ lop' = "pop"
           /\ lok' = r.ok
           /\ lval' = r.val
           /\ lpanic' = r.panic
    /\ UNCHANGED <<U, lres, drv, thr>>

NextLow == LowPush \/ LowPop

SpecLow == InitLow /\ [][NextLow]_vars

\* C8: for a cursor type of w bits, signed or unsigned, and a store of
\* length L >= 2 whose indices all fit the type, every sequence of the free
\* functions Push, Pop, Len and Cap from read = write = 0 returns what the
\* same sequence of calls returns on the container New(L-1), both cursors
\* stay in [0, L) and no slot outside the store is accessed (no panic).
LowEqualsContainer ==
    /\ lok = ok
    /\ lval = val
    /\ Length(slice, lread, lwrite, U) = RingBuffer_Len
    /\ Cap(slice) = RingBuffer_Cap
    /\ ~lpanic /\ ~panic
    /\ InRange(slice, lread)
    /\ InRange(slice, lwrite)
    /\ lread = read /\ lwrite = write

\* a state of C8: the store is as long as the cursor type allows, so that
\* *write + 1 has overflowed the type, and a value pushed after that was popped
LowEqualsContainerWitness ==
    /\ Len(slice) = MaxOf(U) + 1
    /\ Len(slice) >= 4
    /\ lop = "pop" /\ lok
    /\ lval > Len(slice)
    /\ lread = 1

(***************************************************************************)
(* SpecStore: the low-level form on its own.  The caller owns a store of   *)
(* length L >= 1 (var buf [L]int) and two cursors starting at 0, of type   *)
(* int or of a narrow type in which all of 0 .. L-1 can be represented     *)
(* ("be aware of integer overflows": a longer store is the caller's        *)
(* mistake), and makes up to MaxLowCalls calls of Push and Pop.  The       *)
(* pushed value is the number of the call.                                 *)
(***************************************************************************)
StoreTypes == CursorTypes \cup {IntT}

\* the longest store tried with cursors of type u
MaxLenOf(u) == IF u.bits = NativeBits THEN MaxCap + 1 ELSE MaxOf(u) + 1

InitStore ==
    /\ \E u \in StoreTypes : \E L \in 1..MaxLenOf(u) :
          /\ U = u
          /\ slice = [i \in 1..L |-> Zero]
    /\ lread = 0 /\ lwrite = 0
    /\ lop = "none" /\ lok = TRUE /\ lval = Zero /\ lpanic = FALSE /\ lres = 0
    /\ InitContainer("zero", 0)
    /\ DriverIdle
    /\ ThreadsIdle

\* ringbuffer.Push(buf[:], read, &write, v)
StorePush ==
    /\ calls < MaxLowCalls
    /\ ~lpanic
    /\ LET r == Push(slice, lread, lwrite, calls + 1, U)
       IN  /\ slice' = r.slice
           /\ lwrite' = r.write
           /\ lread' = lread
           /\ lop' = "push"
           /\ lok' = r.ok
           /\ lval' = Zero
           /\ lpanic' = r.panic
    /\ calls' = calls + 1
    /\ UNCHANGED <<U, lres>>
    /\ UNCHANGED <<cont, res, made, hist, drv, thr>>

\* ringbuffer.Pop(buf[:], &read, write)
StorePop ==
    /\ calls < MaxLowCalls
    /\ ~lpanic
    /\ LET r == Pop(slice, lread, lwrite, U)
       IN  /\ lread' = r.read
           /\ slice' = r.slice
           /\ lwrite' = lwrite
           /\ lop' = "pop"
           /\ lok' = r.ok
           /\ lval' = r.val
           /\ lpanic' = r.panic
    /\ calls' = calls + 1
    /\ UNCHANGED <<U, lres>>
    /\ UNCHANGED <<cont, res, made, hist, drv, thr>>

NextStore == StorePush \/ StorePop

SpecStore == InitStore /\ [][NextStore]_vars

\* the conditions of INV2 on the cursors
EmptyCondition == lread = lwrite
FullCondition == (lwrite + 1) % Len(slice) = lread

StorePushFails == ~Push(slice, lread, lwrite, Zero, U).ok
StorePopFails == ~Pop(slice, lread, lwrite, U).ok
StoreLen == Length(slice, lread, lwrite, U)

\* the two equivalences of INV2: empty (Pop fails, Len = 0) iff read = write,
\* full (Push fails, Len = Cap) iff (write + 1) mod L = read
EmptyAndFullIff ==
    /\ StorePopFails <=> EmptyCondition
    /\ (StoreLen = 0) <=> EmptyCondition
    /\ StorePushFails <=> FullCondition
    /\ (StoreLen = Cap(slice)) <=> FullCondition

\* C13 as claimed: in every state reachable by Push and Pop from read = write
\* = 0 over a store of any length L >= 1, L = 1 included, the buffer is empty
\* iff read = write, it is full iff (write + 1) mod L = read, and the empty
\* and the full condition never hold in the same state.
Inv2AnyLength ==
    Len(slice) >= 1 =>
        /\ EmptyAndFullIff
        /\ ~(EmptyCondition /\ FullCondition)

\* C13, amended: in every state reachable by Push and Pop from read = write
\* = 0 over a store of length L >= 1 the buffer is empty iff read = write and
\* full iff (write + 1) mod L = read; for L >= 2 the two conditions never
\* hold in the same state, while for L = 1 (capacity 0) both hold in every
\* state: the buffer is empty and full at once.
Inv2 ==
    Len(slice) >= 1 =>
        /\ EmptyAndFullIff
        /\ Len(slice) >= 2 => ~(EmptyCondition /\ FullCondition)
        /\ Len(slice) = 1 => (EmptyCondition /\ FullCondition)

\* a state of C13: a store of length 1 on which a Push and then a Pop failed
Inv2Witness ==
    /\ Len(slice) = 1
    /\ calls >= 2
    /\ lop = "pop" /\ ~lok
    /\ StorePushFails

\* C14: INV1.  For a store of length L > 0 and cursors starting at 0, after
\* any sequence of Push and Pop calls 0 <= read < L and 0 <= write < L, and no
\* call has accessed a slot outside the store (no call panicked).
CursorRange ==
    Len(slice) > 0 =>
        /\ InRange(slice, lread)
        /\ InRange(slice, lwrite)
        /\ ~lpanic

\* a state of C14: with a store as long as a narrow cursor type allows, both
\* cursors have gone around the store and a Pop has taken read back to 0
CursorRangeWitness ==
    /\ U.bits # NativeBits
    /\ Len(slice) >= 3
    /\ Len(slice) = MaxOf(U) + 1
    /\ lop = "pop" /\ lok
    /\ lread = 0
    /\ lwrite < Len(slice) - 1
    /\ lval > Len(slice)

(***************************************************************************)
(* SpecEmptyStore: one call of the free function Len or Pop on a store of  *)
(* length 0 with cursor values the caller supplies, of any narrow cursor   *)
(* type.                                                                   *)
(***************************************************************************)
InitEmptyStore ==
    /\ \E u \in CursorTypes : \E r \in MinOf(u)..MaxOf(u) : \E w \in MinOf(u)..MaxOf(u) :
          /\ U = u
          /\ lread = r
          /\ lwrite = w
    /\ slice = << >>
    /\ lop = "none" /\ lok = TRUE /\ lval = Zero /\ lpanic = FALSE /\ lres = 0
    /\ InitContainer("zero", 0)
    /\ DriverIdle
    /\ ThreadsIdle

\* ringbuffer.Len(buf[:], read, write)
CallLen ==
    /\ lop = "none"
    /\ lop' = "Len"
    /\ lres' = Length(slice, lread, lwrite, U)
    /\ UNCHANGED <<U, slice, lread, lwrite, lok, lval, lpanic>>
    /\ UNCHANGED <<cont, res, made, hist, calls, drv, thr>>

\* ringbuffer.Pop(buf[:], &read, write)
CallPop0 ==
    /\ lop = "none"
    /\ LET r == Pop(slice, lread, lwrite, U)
       IN  /\ lop' = "Pop"
           /\ lok' = r.ok
           /\ lval' = r.val
           /\ lread' = r.read
           /\ slice' = r.slice
           /\ lpanic' = r.panic
    /\ UNCHANGED <<U, lwrite, lres>>
    /\ UNCHANGED <<cont, res, made, hist, calls, drv, thr>>

NextEmptyStore == CallLen \/ CallPop0

SpecEmptyStore == InitEmptyStore /\ [][NextEmptyStore]_vars

\* C9: the low-level Len(store, read, write) returns 0 for a store of length
\* 0 for every pair of cursor values read and write, not only for
\* read = write.
LenOfEmptyStoreIsZero ==
    (lop = "Len" /\ Len(slice) = 0) => lres = 0

(***************************************************************************)
(* SpecCycle: the fill-and-drain cycles of TestRingBuffer.  A container    *)
(* New(C), C in 1 .. MaxCap, first takes up to MaxPre calls of Push and    *)
(* Pop, which leave its cursors anywhere; from any empty state so reached  *)
(* the cycle "Push(1) .. Push(C), C Pops, one more Pop" is run MaxCycles   *)
(* times.  cstep counts the calls made in the current cycle.               *)
(***************************************************************************)
InitCycle ==
    /\ \E c \in 1..MaxCap : InitContainer("New", c)
    /\ DriverIdle
    /\ ThreadsIdle
    /\ LowIdle

PrePush ==
    /\ phase = "free"
    /\ calls < MaxPre
    /\ \E v \in Values : RingBuffer_Push(v)
    /\ UNCHANGED <<drv, low, thr>>

PrePop ==
    /\ phase = "free"
    /\ calls < MaxPre
    /\ RingBuffer_Pop
    /\ UNCHANGED <<drv, low, thr>>

\* the cycles start in an empty state: assert.Equal(0, buf.Len())
StartCycle ==
    /\ phase = "free"
    /\ RingBuffer_Len = 0
    /\ phase' = "push"
    /\ cstep' = 0
    /\ cycles' = 0
    /\ UNCHANGED <<cont, res, made, hist, calls, low, thr>>

\* assert.Equal(true, buf.Push(1)) ... buf.Push(C)
CyclePush ==
    /\ phase = "push"
    /\ RingBuffer_Push(cstep + 1)
    /\ cstep' = cstep + 1
    /\ phase' = IF cstep + 1 = capacity THEN "pop" ELSE "push"
    /\ UNCHANGED <<cycles, low, thr>>

\* eq2(buf.Pop())(1, true) ... (C, true)
CyclePop ==
    /\ phase = "pop"
    /\ RingBuffer_Pop
    /\ cstep' = cstep + 1
    /\ phase' = IF cstep + 1 = 2 * capacity THEN "extra" ELSE "pop"
    /\ UNCHANGED <<cycles, low, thr>>

\* eq2(buf.Pop())(0, false)
CycleExtraPop ==
    /\ phase = "extra"
    /\ RingBuffer_Pop
    /\ cstep' = cstep + 1
    /\ phase' = "end"
    /\ UNCHANGED <<cycles, low, thr>>

\* for i := 0; i < 10; i++
CycleAgain ==
    /\ phase = "end"
    /\ cycles + 1 < MaxCycles
    /\ phase' = "push"
    /\ cstep' = 0
    /\ cycles' = cycles + 1
    /\ UNCHANGED <<cont, res, made, hist, calls, low, thr>>

NextCycle ==
    \/ PrePush \/ PrePop \/ StartCycle
    \/ CyclePush \/ CyclePop \/ CycleExtraPop \/ CycleAgain

SpecCycle == InitCycle /\ [][NextCycle]_vars

\* C10: from any reachable empty state of a container of capacity C >= 1,
\* whatever index the two equal cursors are at, every repetition of the
\* cycle "C Pushes, C Pops, one more Pop" gives the same results: each Push
\* returns true and Len() counts 1 .. C, each of the C Pops returns the
\* pushed values in order and Len() counts C-1 .. 0, the extra Pop returns
\* (zero value, false), and Cap() stays C.  What is observed after the
\* cstep-th call of a cycle depends on cstep alone.
CycleObservations ==
    phase \in {"push", "pop", "extra", "end"} =>
        /\ RingBuffer_Cap = capacity
        /\ cstep = 0 => RingBuffer_Len = 0
        /\ (1 <= cstep /\ cstep <= capacity) =>
              /\ op = "push" /\ ok
              /\ RingBuffer_Len = cstep
        /\ (capacity < cstep /\ cstep <= 2 * capacity) =>
              /\ op = "pop" /\ ok
              /\ val = cstep - capacity
              /\ RingBuffer_Len = 2 * capacity - cstep
        /\ cstep = 2 * capacity + 1 =>
              /\ op = "pop" /\ ~ok /\ val = Zero
              /\ RingBuffer_Len = 0
        /\ ~panic

\* a state of C10: the end of a third cycle that started away from index 0
\* after earlier calls, on a container of capacity 2 or more
CycleObservationsWitness ==
    /\ phase = "end"
    /\ cycles >= 2
    /\ capacity >= 2
    /\ read # 0
    /\ calls > cycles * (2 * capacity + 1) + 2 * capacity + 1

(***************************************************************************)
(* Pop on a store of length 0 (SpecEmptyStore).                            *)
(***************************************************************************)
\* C16: for a store of length 0 and every pair of cursor values read and
\* write supplied by the caller, the low-level Pop returns (zero value,
\* false), leaves the read cursor unchanged and does not panic.
PopOfEmptyStoreFailsCleanly ==
    [][ (lop' = "Pop" /\ Len(slice) = 0) =>
          /\ ~lok'
          /\ lval' = Zero
          /\ lread' = lread
          /\ ~lpanic' ]_vars

(***************************************************************************)
(* Push and Pop one load or store at a time.                               *)
(*                                                                         *)
(* Two threads call the low-level form on the same store and cursors with  *)
(* no lock.  Memory is sequentially consistent: a step is one load or one  *)
(* store of a cursor or slot, and the steps of the threads interleave in   *)
(* any order.  The arguments passed by value (read in Push, write in Pop)  *)
(* are loaded when the call begins.                                        *)
(***************************************************************************)
\* what the thread steps leave alone
still == <<cont, res, made, run, runEmpty, calls, drv, U, lop, lok, lval, lres>>

\* the stores of Push in the wrong order: the write cursor is advanced before
\* the slot is written
PushOrder_CursorFirst == <<"cursor", "slot">>

\* the stores of Push after its test, in program order:
\* slice[*write] = v, then *write = U(next)
PushOrder == <<"slot", "cursor">>

\* the load and the store of Pop after its test, in program order:
\* val := slice[*read], then *read = U(...)
PopOrder == <<"slot", "cursor">>

\* the call Push(slice, read, &write, v) begins: read is passed by value
PushBegin(t, v) ==
    /\ ~lpanic
    /\ pc[t] \in {"idle", "done"}
    /\ pc' = [pc EXCEPT ![t] = "push110"]
    /\ loc' = [loc EXCEPT ![t] = [NoLocals EXCEPT !.rd = lread, !.v = v,
                                                  !.n = loc[t].n + 1]]
    /\ UNCHANGED <<slice, lread, lwrite, lpanic, pushed, popped, still>>

\* if len(slice) == 0 { return false }
\* next := int(*write+1) % len(slice): the load of *write
\* if next == int(read) { return false }
PushLoad(t) ==
    /\ ~lpanic
    /\ pc[t] = "push110"
    /\ LET next == IF Len(slice) = 0 THEN 0 ELSE PushNext(slice, lwrite, U)
           full == Len(slice) = 0 \/ PushFull(next, loc[t].rd)
       IN  /\ pc' = [pc EXCEPT ![t] = IF full THEN "done" ELSE "push114"]
           /\ loc' = [loc EXCEPT ![t] = [@ EXCEPT !.wr = lwrite, !.next = next,
                                                  !.ret = IF full THEN "false" ELSE "none"]]
    /\ UNCHANGED <<slice, lread, lwrite, lpanic, pushed, popped, still>>

\* slice[*write] = v and *write = U(next), one store per step, in PushOrder;
\* return true after the second.  The index of the slot is *write, which the
\* build may load again or take from the load of line 110.
PushStore(t) ==
    /\ ~lpanic
    /\ pc[t] = "push114"
    /\ LET k == loc[t].k + 1
           last == k = Len(PushOrder)
       IN  /\ \/ /\ PushOrder[k] = "slot"
                 /\ \E idx \in {loc[t].wr, lwrite} :
                       IF InRange(slice, idx)
                       THEN /\ slice' = [slice EXCEPT ![idx + 1] = loc[t].v]
                            /\ lpanic' = FALSE
                       ELSE /\ slice' = slice
                            /\ lpanic' = TRUE
                 /\ lwrite' = lwrite
              \/ /\ PushOrder[k] = "cursor"
                 /\ lwrite' = Conv(loc[t].next, U)
                 /\ UNCHANGED <<slice, lpanic>>
           /\ pc' = [pc EXCEPT ![t] = IF last THEN "done" ELSE "push114"]
           /\ loc' = [loc EXCEPT ![t] = [@ EXCEPT !.k = k,
                                                  !.ret = IF last THEN "true" ELSE "none"]]
           /\ pushed' = IF last THEN Append(pushed, loc[t].v) ELSE pushed
    /\ UNCHANGED <<lread, popped, still>>

\* the call Pop(slice, &read, write) begins: write is passed by value
PopBegin(t) ==
    /\ ~lpanic
    /\ pc[t] \in {"idle", "done"}
    /\ pc' = [pc EXCEPT ![t] = "pop123"]
    /\ loc' = [loc EXCEPT ![t] = [NoLocals EXCEPT !.wr = lwrite, !.n = loc[t].n + 1]]
    /\ UNCHANGED <<slice, lread, lwrite, lpanic, pushed, popped, still>>

\* if *read == write { return def, false }: the load of *read
PopLoad(t) ==
    /\ ~lpanic
    /\ pc[t] = "pop123"
    /\ LET empty == PopEmpty(lread, loc[t].wr)
       IN  /\ pc' = [pc EXCEPT ![t] = IF empty THEN "done" ELSE "pop127"]
           /\ loc' = [loc EXCEPT ![t] = [@ EXCEPT !.rd = lread,
                                                  !.ret = IF empty THEN "false" ELSE "none"]]
    /\ UNCHANGED <<slice, lread, lwrite, lpanic, pushed, popped, still>>

\* val := slice[*read] and *read = U(int(*read+1) % len(slice)), one per
\* step, in PopOrder; return val, true after the second
PopStep(t) ==
    /\ ~lpanic
    /\ pc[t] = "pop127"
    /\ LET k == loc[t].k + 1
           last == k = Len(PopOrder)
           slot == PopOrder[k] = "slot"
           v == IF slot /\ InRange(slice, lread) THEN slice[lread + 1] ELSE loc[t].val
       IN  /\ \/ /\ PopOrder[k] = "slot"
                 /\ lpanic' = ~InRange(slice, lread)
                 /\ lread' = lread
              \/ /\ PopOrder[k] = "cursor"
                 /\ lread' = PopNext(slice, lread, U)
                 /\ lpanic' = lpanic
           /\ pc' = [pc EXCEPT ![t] = IF last THEN "done" ELSE "pop127"]
           /\ loc' = [loc EXCEPT ![t] = [@ EXCEPT !.k = k, !.val = v,
                                                  !.ret = IF last THEN "true" ELSE "none"]]
           /\ popped' = IF last THEN Append(popped, v) ELSE popped
    /\ UNCHANGED <<slice, lwrite, pushed, still>>

(***************************************************************************)
(* SpecRace: two writers.  Over a store of length 2 .. MaxCap + 1 with int *)
(* cursors anywhere in the store, of which Len was just taken, thread 1    *)
(* calls Push(.., 1) and thread 2 calls Push(.., 2), once each and at the  *)
(* same time.  The slots hold 0, so the two pushed values are told apart   *)
(* from what was there.                                                    *)
(***************************************************************************)
InitRace ==
    /\ U = IntT
    /\ \E L \in 2..(MaxCap + 1) : \E r \in 0..(L - 1) : \E w \in 0..(L - 1) :
          /\ slice = [i \in 1..L |-> Zero]
          /\ lread = r
          /\ lwrite = w
          /\ lres = Length(slice, r, w, IntT)
    /\ lop = "Len" /\ lok = TRUE /\ lval = Zero /\ lpanic = FALSE
    /\ InitContainer("zero", 0)
    /\ DriverIdle
    /\ ThreadsIdle

RacePush(t) ==
    /\ loc[t].n = 0
    /\ PushBegin(t, t)

NextRace ==
    \E t \in Threads : RacePush(t) \/ PushLoad(t) \/ PushStore(t)

SpecRace == InitRace /\ [][NextRace]_vars

\* the values that Pops would now return from the shared store
StorePoppable == Drain(slice, lread, lwrite, Len(slice) + 1)

InSeq(x, q) == \E i \in 1..Len(q) : q[i] = x

BothReturnedTrue ==
    \A t \in Threads : pc[t] = "done" /\ loc[t].ret = "true"

\* C17: two Push calls on the same store and cursors running at once without
\* a lock are not safe.  When both have returned true and both had loaded
\* the same value of the write cursor (each loaded it before the other
\* stored it), the length has grown by one only and just one of the two
\* values can be popped: the other is lost.  When they loaded different
\* values (one call was over before the other loaded), the length has grown
\* by two and both values can be popped.
RaceLosesPush ==
    BothReturnedTrue =>
        IF loc[1].wr = loc[2].wr
        THEN /\ StoreLen = lres + 1
             /\ InSeq(1, StorePoppable) # InSeq(2, StorePoppable)
        ELSE /\ StoreLen = lres + 2
             /\ InSeq(1, StorePoppable) /\ InSeq(2, StorePoppable)

\* the state C17 says is reachable: both calls returned true, the length
\* grew by one and the value of thread 1 is in no slot that a Pop reaches
RaceLosesPushWitness ==
    /\ BothReturnedTrue
    /\ StoreLen = lres + 1
    /\ InSeq(2, StorePoppable)
    /\ ~InSeq(1, StorePoppable)
    /\ ~lpanic

(***************************************************************************)
(* SpecSpsc: one producer and one consumer.  Over a store of length 2 ..   *)
(* MaxCap + 1 with int cursors starting at 0, thread 1 makes MaxSpscCalls  *)
(* calls of Push, with the values 1, 2, ..., while thread 2 makes          *)
(* MaxSpscCalls calls of Pop.  Push works with the value of read it was    *)
(* given when it began and Pop with the value of write it was given, which *)
(* the other thread may have moved since.                                  *)
(***************************************************************************)
Producer == 1
Consumer == 2

InitSpsc ==
    /\ U = IntT
    /\ \E L \in 2..(MaxCap + 1) : slice = [i \in 1..L |-> Zero]
    /\ lread = 0 /\ lwrite = 0
    /\ lop = "none" /\ lok = TRUE /\ lval = Zero /\ lpanic = FALSE /\ lres = 0
    /\ InitContainer("zero", 0)
    /\ DriverIdle
    /\ ThreadsIdle

ProducerPush ==
    /\ loc[Producer].n < MaxSpscCalls
    /\ PushBegin(Producer, loc[Producer].n + 1)

ConsumerPop ==
    /\ loc[Consumer].n < MaxSpscCalls
    /\ PopBegin(Consumer)

NextSpsc ==
    \/ ProducerPush \/ PushLoad(Producer) \/ PushStore(Producer)
    \/ ConsumerPop \/ PopLoad(Consumer) \/ PopStep(Consumer)

SpecSpsc == InitSpsc /\ [][NextSpsc]_vars

IsPrefix(p, q) == Len(p) <= Len(q) /\ \A i \in 1..Len(p) : p[i] = q[i]

\* the consumer has passed the test of Pop and its next step loads the slot
ConsumerAtSlot ==
    /\ pc[Consumer] = "pop127"
    /\ PopOrder[loc[Consumer].k + 1] = "slot"

\* the producer has passed the test of Push and has yet to store the slot
ProducerBeforeSlot ==
    /\ pc[Producer] = "push114"
    /\ \E k \in (loc[Producer].k + 1)..Len(PushOrder) : PushOrder[k] = "slot"

\* C18: with one thread calling Push and one calling Pop on the same store
\* of length L >= 2, interleaved load by load and store by store under
\* sequentially consistent memory, in every reachable state both cursors
\* are in [0, L) and nothing has panicked, the popped values are a prefix of
\* the successfully pushed ones, and whenever Pop is about to load a slot,
\* that slot holds the next value of a Push that has returned true and the
\* producer is not about to store into it.
SpscSafe ==
    /\ InRange(slice, lread)
    /\ InRange(slice, lwrite)
    /\ ~lpanic
    /\ IsPrefix(popped, pushed)
    /\ ConsumerAtSlot =>
          /\ Len(pushed) > Len(popped)
          /\ slice[lread + 1] = pushed[Len(popped) + 1]
          /\ ~(ProducerBeforeSlot /\ loc[Producer].wr = lread)

\* a state of C18: Pop has returned the value of the last slot of the store
\* while a Push, whose write cursor has gone around the store and which was
\* given a value of read that the consumer has since moved, is between its
\* test and its stores
SpscSafeWitness ==
    /\ Len(slice) >= 3
    /\ pc[Consumer] = "done" /\ loc[Consumer].ret = "true"
    /\ loc[Consumer].val >= Len(slice)
    /\ ProducerBeforeSlot
    /\ loc[Producer].rd # lread
    /\ loc[Producer].wr < loc[Producer].rd

=============================================================================
